---- MODULE Spec2Model ----
(***************************************************************************)
(* ReplyMint: the checkout bridge (three coexisting POST /api/checkout     *)
(* handlers of the Next.js frontend) and the webhook intake of the         *)
(* backend.                                                                *)
(*                                                                         *)
(* JavaScript values are records [t, v]: t is the type tag and v a string  *)
(* payload ("" where the type has none).                                   *)
(***************************************************************************)
EXTENDS Integers, Sequences, FiniteSets, TLC

\* ------------------------------------------------------------------------
\* JavaScript values
\* ------------------------------------------------------------------------
Undefined == [t |-> "undefined", v |-> ""]
Null == [t |-> "null", v |-> ""]
Str(s) == [t |-> "str", v |-> s]
Num(s) == [t |-> "num", v |-> s]

\* ToBoolean, as applied by `!x` and `a || b`
Truthy(x) ==
  CASE x.t = "undefined" -> FALSE
    [] x.t = "null" -> FALSE
    [] x.t = "str" -> x.v # ""
    [] x.t = "num" -> x.v \notin {"0", "NaN"}
    [] x.t = "bool" -> x.v = "true"
    [] OTHER -> TRUE

\* a ?? b
Nullish(x) == x.t \in {"undefined", "null"}

\* ------------------------------------------------------------------------
\* Inputs of a checkout request
\* ------------------------------------------------------------------------
CheckoutUrl == "https://checkout.example/session_abc"
DefaultBackendUrl == "https://hhm64ykogk.execute-api.eu-central-1.amazonaws.com/staging"
DefaultOrigin == "http://localhost:3000"
CreateSessionPath == "/api/v1/stripe/create-checkout-session"

PriceIdVals ==
  {Undefined, Null, Str(""), Num("0"), Str("price_123"), Str("price_456"), Num("7")}

\* The request body as req.json() sees it: text that does not parse, or the
\* parsed value (null, a primitive, or an object with an optional priceId).
ReqBodies ==
  {[k |-> "malformed", priceId |-> Undefined],
   [k |-> "null", priceId |-> Undefined],
   [k |-> "prim", priceId |-> Undefined]}
  \cup {[k |-> "obj", priceId |-> p] : p \in PriceIdVals}

OriginVals == {Null, Str("https://replymint.example")}

Requests == [body : ReqBodies, origin : OriginVals]

\* process.env of the frontend
Envs ==
  [STRIPE_SECRET_KEY : {Undefined, Str(""), Str("sk_test_xxx")},
   NEXT_PUBLIC_BACKEND_URL : {Undefined, Str("https://api.replymint.example")}]

UrlVals == {Undefined, Null, Str(""), Str(CheckoutUrl)}
DetailVals == {Undefined, Str(""), Str("Invalid price")}

NoData == [k |-> "absent", url |-> Undefined]
DataVals ==
  {NoData, [k |-> "null", url |-> Undefined], [k |-> "prim", url |-> Undefined]}
  \cup {[k |-> "obj", url |-> u] : u \in UrlVals}

\* Body of a backend response as response.json() sees it
OkBodies ==
  {[k |-> "unparsable", data |-> NoData, url |-> Undefined, detail |-> Undefined],
   [k |-> "null", data |-> NoData, url |-> Undefined, detail |-> Undefined],
   [k |-> "prim", data |-> NoData, url |-> Undefined, detail |-> Undefined]}
  \cup {[k |-> "obj", data |-> d, url |-> u, detail |-> Undefined] :
          d \in DataVals, u \in UrlVals}
ErrBodies ==
  {[k |-> "unparsable", data |-> NoData, url |-> Undefined, detail |-> Undefined],
   [k |-> "null", data |-> NoData, url |-> Undefined, detail |-> Undefined],
   [k |-> "prim", data |-> NoData, url |-> Undefined, detail |-> Undefined]}
  \cup {[k |-> "obj", data |-> NoData, url |-> Undefined, detail |-> d] :
          d \in DetailVals}

OkStatuses == {200, 201}
ErrStatuses == {304, 400, 500, 503}
\* Response.ok
Ok(status) == status >= 200 /\ status <= 299
\* statuses for which the Response constructor rejects a body
NullBodyStatus(status) == status \in {101, 204, 205, 304}

NoBody == [k |-> "null", data |-> NoData, url |-> Undefined, detail |-> Undefined]

\* Outcome of fetch(backend): a rejected promise or a response
BackendOutcomes ==
  {[k |-> "throw", status |-> 0, body |-> NoBody, id |-> Undefined, url |-> Undefined]}
  \cup {[k |-> "resp", status |-> s, body |-> b, id |-> Undefined, url |-> Undefined] :
          s \in OkStatuses, b \in OkBodies}
  \cup {[k |-> "resp", status |-> s, body |-> b, id |-> Undefined, url |-> Undefined] :
          s \in ErrStatuses, b \in ErrBodies}

\* Outcome of stripe.checkout.sessions.create: a rejected promise or a
\* Session, whose url is typed string | null
StripeOutcomes ==
  {[k |-> "throw", status |-> 0, body |-> NoBody, id |-> Undefined, url |-> Undefined],
   [k |-> "session", status |-> 0, body |-> NoBody, id |-> Str("cs_test_1"),
    url |-> Str(CheckoutUrl)],
   [k |-> "session", status |-> 0, body |-> NoBody, id |-> Str("cs_test_1"),
    url |-> Null]}

\* ------------------------------------------------------------------------
\* Responses
\* ------------------------------------------------------------------------
NoError == "-"
\* what the catch block answers: 500 with the error's message
Caught(message, calls) ==
  [status |-> 500, error |-> message, url |-> Undefined, id |-> Undefined,
   calls |-> calls]

\* NextResponse.json({error}, {status}) inside the try block: the Response
\* constructor throws for a null-body status, and the catch block answers
ErrorJson(status, error, calls) ==
  IF NullBodyStatus(status)
  THEN Caught("Response with null body status cannot have body", calls)
  ELSE [status |-> status, error |-> error, url |-> Undefined, id |-> Undefined,
        calls |-> calls]

\* NextResponse.json({url}, {status: 200}) / NextResponse.json({id, url}, ...)
UrlJson(id, url, calls) ==
  [status |-> 200, error |-> NoError, url |-> url, id |-> id, calls |-> calls]

\* the request fetch() sends to the backend
BackendCall(env, priceId) ==
  [target |-> "backend",
   base |-> IF Truthy(env.NEXT_PUBLIC_BACKEND_URL)
            THEN env.NEXT_PUBLIC_BACKEND_URL.v ELSE DefaultBackendUrl,
   path |-> CreateSessionPath,
   price |-> priceId]

\* the remote calls made by `await fetch(...)`
FetchBackend_twice(env, priceId) ==
  <<BackendCall(env, priceId), BackendCall(env, priceId)>>
FetchBackend(env, priceId) == <<BackendCall(env, priceId)>>

\* the remote calls made by `await stripe.checkout.sessions.create(...)`
CreateSession(req, priceId) ==
  <<[target |-> "stripe",
     base |-> IF Truthy(req.origin) THEN req.origin.v ELSE DefaultOrigin,
     path |-> "checkout.sessions.create",
     price |-> priceId]>>

\* body?.priceId
PriceIdOf(body) == IF body.k = "obj" THEN body.priceId ELSE Undefined

\* if (!priceId)
MissingPriceId_undefinedOnly(priceId) == priceId.t = "undefined"
MissingPriceId(priceId) == ~Truthy(priceId)

\* if (!secretKey)
Misconfigured_never(env) == FALSE
Misconfigured(env) == ~Truthy(env.STRIPE_SECRET_KEY)

\* if (!response.ok) { ... } of both backend-proxied handlers
BackendFailure_500(out, calls) ==
  IF out.body.k = "null"
  THEN Caught("Cannot read properties of null (reading 'detail')", calls)
  ELSE LET detail == IF out.body.k = "obj" THEN out.body.detail ELSE Undefined
       IN ErrorJson(500,
                    IF Truthy(detail) THEN detail.v
                    ELSE "Failed to create checkout session",
                    calls)
BackendFailure(out, calls) ==
  IF out.body.k = "null"
  THEN Caught("Cannot read properties of null (reading 'detail')", calls)
  ELSE LET detail == IF out.body.k = "obj" THEN out.body.detail ELSE Undefined
       IN ErrorJson(out.status,
                    IF Truthy(detail) THEN detail.v
                    ELSE "Failed to create checkout session",
                    calls)

\* if (!url) 502 else 200 {url}
UrlOrBadGateway(url, calls) ==
  IF ~Truthy(url) THEN ErrorJson(502, "No checkout URL returned", calls)
  ELSE UrlJson(Undefined, url, calls)

\* frontend/src/app/api/checkout/route.ts
POST_route(req, env, out) ==
  LET priceId == PriceIdOf(req.body)
      calls == FetchBackend(env, priceId)
      sessionData == out.body
  IN IF req.body.k = "malformed" THEN Caught("Unexpected token in JSON", <<>>)
     ELSE IF MissingPriceId(priceId) THEN ErrorJson(400, "Missing priceId", <<>>)
     ELSE IF out.k = "throw" THEN Caught("fetch failed", calls)
     ELSE IF ~Ok(out.status) THEN BackendFailure(out, calls)
     ELSE IF sessionData.k = "unparsable"
          THEN Caught("Unexpected end of JSON input", calls)
     ELSE IF sessionData.k \in {"null", "prim"}
          THEN Caught("Cannot use 'in' operator to search for 'data'", calls)
     ELSE IF sessionData.data.k = "null"
          THEN Caught("Cannot read properties of null (reading 'url')", calls)
     ELSE UrlOrBadGateway(
            IF sessionData.data.k = "obj" THEN sessionData.data.url
            ELSE IF sessionData.data.k = "prim" THEN Undefined
            ELSE sessionData.url,
            calls)

\* sessionData?.data?.url ?? sessionData?.url
SupersededUrl_dataOnly(sessionData) ==
  IF sessionData.k = "obj" /\ sessionData.data.k = "obj"
  THEN sessionData.data.url ELSE Undefined
SupersededUrl(sessionData) ==
  LET dataUrl == IF sessionData.k = "obj" /\ sessionData.data.k = "obj"
                 THEN sessionData.data.url ELSE Undefined
      ownUrl == IF sessionData.k = "obj" THEN sessionData.url ELSE Undefined
  IN IF Nullish(dataUrl) THEN ownUrl ELSE dataUrl

\* the superseded copy of the backend-proxied handler
POST_superseded(req, env, out) ==
  LET priceId == PriceIdOf(req.body)
      calls == FetchBackend(env, priceId)
      sessionData == out.body
  IN IF req.body.k = "malformed" THEN Caught("Unexpected token in JSON", <<>>)
     ELSE IF MissingPriceId(priceId) THEN ErrorJson(400, "Missing priceId", <<>>)
     ELSE IF out.k = "throw" THEN Caught("fetch failed", calls)
     ELSE IF ~Ok(out.status) THEN BackendFailure(out, calls)
     ELSE IF sessionData.k = "unparsable"
          THEN Caught("Unexpected end of JSON input", calls)
     ELSE UrlOrBadGateway(SupersededUrl(sessionData), calls)

\* the direct-provider handler (appended to frontend/src/app/page.tsx)
POST_direct(req, env, out) ==
  LET priceId == PriceIdOf(req.body)
      calls == CreateSession(req, priceId)
  IN IF req.body.k = "malformed" THEN Caught("Unexpected token in JSON", <<>>)
     ELSE IF MissingPriceId(priceId) THEN ErrorJson(400, "Missing priceId", <<>>)
     ELSE IF Misconfigured(env)
          THEN ErrorJson(500, "Server misconfiguration: STRIPE_SECRET_KEY not set", <<>>)
     ELSE IF out.k = "throw" THEN Caught("No such price", calls)
     ELSE UrlJson(out.id, out.url, calls)

\* ------------------------------------------------------------------------
\* State
\* ------------------------------------------------------------------------
VARIABLES
  ckHandler,   \* which handler is deployed at /api/checkout
  ckEnv,       \* process.env of the deployment
  ckPc,        \* "idle", "received" (a request arrived), "done" (answered)
  ckReq,       \* the request being served
  ckOut,       \* what the backend / the provider answers when called
  ckResp       \* the handler's response, with the remote calls it made

VARIABLES
  whSeen,      \* event ids recorded as dedup keys
  whUsage,     \* usage counter
  whLogs,      \* log of applied events: <<[id, source], ...>>
  whQueue,     \* deliveries queued for out-of-band retry
  whFetches,   \* fetches of the full object made so far, per event id
  whCount,     \* deliveries received so far
  whLast       \* the last delivery and what the handler did with it

VARIABLES
  pgPc,        \* pricing page: "idle", "waiting" (request sent), "left" (navigated)
  pgLocation,  \* window.location.href of the pricing page's tab
  pgClicked,   \* the price id the last startCheckout was called with
  pgSent       \* requests the last startCheckout sent

VARIABLES
  auApiUrl,     \* process.env.NEXT_PUBLIC_API_URL
  auLoc,        \* the page the browser tab shows
  auVia,        \* what brought the tab to auLoc
  lsToken,      \* localStorage item "backendToken"
  lsUser,       \* localStorage item "userData"
  siEmail,      \* sign-in page: email, the text of the form's input
  siIsLoading,  \* sign-in page: isLoading, true while handleSubmit awaits
  siAlert,      \* sign-in page: the last alert shown
  siLast,       \* sign-in page: the last login response handleSubmit got
  naPc,         \* NextAuth sign-in: "idle", "authorized" (jwt callback due),
                \* "issued" (cookie set) or "rejected" (authorize returned null)
  naUser,       \* what authorize returned to NextAuth
  naLast,       \* the last login response NextAuth's sign-in got
  naLogins,     \* login calls made by the sign-in under way
  naJwt,        \* the session JWT cookie
  naStatus,     \* useSession().status in the tab
  acToken,      \* AuthContext: backendToken state
  acPending,    \* AuthContext: the [session] effect is due
  prPending,    \* ProtectedRoute: the sign-in redirect effect is due
  prAdminPending, \* ProtectedRoute: the admin redirect effect is due
  stIsSaving,   \* settings page: isSaving, true while handleSave awaits
  stSent,       \* settings page: Authorization header of the last PUT
  stInFlight,   \* settings page: PUT requests awaiting their response
  stAlert,      \* settings page: the last alert shown
  dashIsLoading,    \* dashboard page: isLoading
  dashIsRefreshing, \* dashboard page: isRefreshing
  dashData,         \* dashboard page: dashboardData
  dashSent,         \* dashboard page: Authorization header of the last GET
  dashFetching,     \* dashboard page: fetchDashboardData awaits its response
  dashLast          \* dashboard page: the last overview response

VARIABLES
  dpScript,    \* deploy: the script that is run
  dpAws,       \* deploy: whether `aws` is a command of the session
  dpSam,       \* deploy: whether `sam` is a command of the session
  dpPc,        \* deploy: the step the script is at: "bucket", "build", "deploy", "done"
  dpLast,      \* deploy: $LASTEXITCODE
  dpBucket,    \* deploy: how `aws s3 mb` went
  dpBuild,     \* deploy: how `sam build` went
  dpDeploy,    \* deploy: how `sam deploy` went
  dpExit       \* deploy: the script's exit code, Running until it ends

VARIABLES
  ssmCreds,      \* SSM: whether the AWS CLI has working credentials
  ssmFollowsUrl, \* SSM: whether the AWS CLI fetches an argument that is a URL
  ssmDropsEmpty, \* SSM: whether the shell drops an empty-string argument
  ssmStore,      \* SSM: the parameters under /replymint/<env>/, per environment
  ssmLast        \* SSM: the last script run

ckVars == <<ckHandler, ckEnv, ckPc, ckReq, ckOut, ckResp>>
dpVars == <<dpScript, dpAws, dpSam, dpPc, dpLast, dpBucket, dpBuild, dpDeploy, dpExit>>
ssmVars == <<ssmCreds, ssmFollowsUrl, ssmDropsEmpty, ssmStore, ssmLast>>
opsVars == <<dpVars, ssmVars>>
auVars == <<auApiUrl, auLoc, auVia, lsToken, lsUser, siEmail, siIsLoading, siAlert,
            siLast, naPc, naUser, naLast, naLogins, naJwt, naStatus, acToken, acPending,
            prPending, prAdminPending, stIsSaving, stSent, stInFlight, stAlert,
            dashIsLoading, dashIsRefreshing, dashData, dashSent, dashFetching, dashLast>>
pgVars == <<pgPc, pgLocation, pgClicked, pgSent>>
whVars == <<whSeen, whUsage, whLogs, whQueue, whFetches, whCount, whLast>>
vars == <<ckHandler, ckEnv, ckPc, ckReq, ckOut, ckResp,
          whSeen, whUsage, whLogs, whQueue, whFetches, whCount, whLast,
          pgPc, pgLocation, pgClicked, pgSent,
          auApiUrl, auLoc, auVia, lsToken, lsUser, siEmail, siIsLoading, siAlert,
          siLast, naPc, naUser, naLast, naLogins, naJwt, naStatus, acToken, acPending,
          prPending, prAdminPending, stIsSaving, stSent, stInFlight, stAlert,
          dashIsLoading, dashIsRefreshing, dashData, dashSent, dashFetching, dashLast,
          dpScript, dpAws, dpSam, dpPc, dpLast, dpBucket, dpBuild, dpDeploy, dpExit,
          ssmCreds, ssmFollowsUrl, ssmDropsEmpty, ssmStore, ssmLast>>

Handlers == {"route", "superseded", "direct"}
NoOut == [k |-> "none", status |-> 0, body |-> NoBody, id |-> Undefined, url |-> Undefined]
NoReq == [body |-> [k |-> "null", priceId |-> Undefined], origin |-> Null]
NoResp == [status |-> 0, error |-> NoError, url |-> Undefined, id |-> Undefined,
           calls |-> <<>>]

CheckoutInit ==
  /\ ckHandler \in Handlers
  /\ ckEnv \in Envs
  /\ ckPc = "idle"
  /\ ckReq = NoReq
  /\ ckOut = NoOut
  /\ ckResp = NoResp

\* a client posts a request to /api/checkout
Receive ==
  /\ ckPc \in {"idle", "done"}
  /\ pgPc # "waiting"
  /\ \E req \in Requests : ckReq' = req
  /\ ckPc' = "received"
  /\ ckOut' = NoOut
  /\ ckResp' = NoResp
  /\ UNCHANGED <<ckHandler, ckEnv>>
  /\ UNCHANGED <<pgVars, whVars, auVars, opsVars>>

HandleRoute ==
  /\ ckPc = "received" /\ ckHandler = "route"
  /\ \E out \in BackendOutcomes :
       /\ ckOut' = out
       /\ ckResp' = POST_route(ckReq, ckEnv, out)
  /\ ckPc' = "done"
  /\ UNCHANGED <<ckHandler, ckEnv, ckReq>>
  /\ UNCHANGED <<pgVars, whVars, auVars, opsVars>>

HandleSuperseded ==
  /\ ckPc = "received" /\ ckHandler = "superseded"
  /\ \E out \in BackendOutcomes :
       /\ ckOut' = out
       /\ ckResp' = POST_superseded(ckReq, ckEnv, out)
  /\ ckPc' = "done"
  /\ UNCHANGED <<ckHandler, ckEnv, ckReq>>
  /\ UNCHANGED <<pgVars, whVars, auVars, opsVars>>

HandleDirect ==
  /\ ckPc = "received" /\ ckHandler = "direct"
  /\ \E out \in StripeOutcomes :
       /\ ckOut' = out
       /\ ckResp' = POST_direct(ckReq, ckEnv, out)
  /\ ckPc' = "done"
  /\ UNCHANGED <<ckHandler, ckEnv, ckReq>>
  /\ UNCHANGED <<pgVars, whVars, auVars, opsVars>>

\* ------------------------------------------------------------------------
\* Pricing page: startCheckout
\* ------------------------------------------------------------------------
PricingPath == "/pricing"
\* PRICE_IDS[plan.key]: an environment variable, possibly unset or empty
PagePriceIds == {Undefined, Null, Str(""), Str("price_123"), Str("price_456")}

\* if (!priceId) return;
SendsRequest_always(priceId) == TRUE
SendsRequest(priceId) == Truthy(priceId)

\* if (res.ok) { ... if (data?.url) { window.location.href = data.url } }
Navigates_noUrlCheck(status, url) == Ok(status)
Navigates(status, url) == Ok(status) /\ Truthy(url)

PricingInit ==
  /\ pgPc = "idle"
  /\ pgLocation = Str(PricingPath)
  /\ pgClicked = Undefined
  /\ pgSent = 0

\* a plan button is clicked: startCheckout up to its await
ClickPlan ==
  /\ pgPc = "idle"
  /\ ckPc \in {"idle", "done"}
  /\ \E p \in PagePriceIds, o \in OriginVals :
       /\ pgClicked' = p
       /\ IF SendsRequest(p)
          THEN /\ pgSent' = 1
               /\ pgPc' = "waiting"
               /\ ckReq' = [body |-> [k |-> "obj", priceId |-> p], origin |-> o]
               /\ ckPc' = "received"
               /\ ckOut' = NoOut
               /\ ckResp' = NoResp
          ELSE /\ pgSent' = 0
               /\ UNCHANGED <<pgPc, ckReq, ckPc, ckOut, ckResp>>
  /\ UNCHANGED <<pgLocation, ckHandler, ckEnv, whVars, auVars, opsVars>>

\* fetch('/api/checkout') rejects: the catch block logs the error
PageFetchFails ==
  /\ pgPc = "waiting"
  /\ pgPc' = "idle"
  /\ ckPc' = IF ckPc = "received" THEN "idle" ELSE ckPc
  /\ UNCHANGED <<pgLocation, pgClicked, pgSent, ckHandler, ckEnv, ckReq, ckOut, ckResp,
                 whVars, auVars, opsVars>>

\* the handler's response reaches the page: the rest of startCheckout
PageResponse ==
  /\ pgPc = "waiting"
  /\ ckPc = "done"
  /\ IF Navigates(ckResp.status, ckResp.url)
     THEN pgLocation' = ckResp.url /\ pgPc' = "left"
     ELSE pgLocation' = pgLocation /\ pgPc' = "idle"
  /\ UNCHANGED <<pgClicked, pgSent, ckVars, whVars, auVars, opsVars>>

CheckoutNext ==
  \/ Receive \/ HandleRoute \/ HandleSuperseded \/ HandleDirect
  \/ ClickPlan \/ PageFetchFails \/ PageResponse

\* ------------------------------------------------------------------------
\* Webhook intake (POST /webhooks/stripe), as section 4.2 requires it
\* ------------------------------------------------------------------------
MaxEvents == 2
MaxDeliveries == 3
EventIds == 1..MaxEvents

\* STRIPE_WEBHOOK_SECRET, and a key the provider does not hold
WebhookSecret == "whsec_xxx"
SigningKeys == {WebhookSecret, "whsec_forged"}

\* A signature is the key it was computed with and the event id it was
\* computed over; a delivery is an event id, the embedded object data (or
\* none) and a signature.
Signatures == [key : SigningKeys, id : EventIds]
Deliveries == [id : EventIds, object : BOOLEAN, sig : Signatures]

\* verify the provider-supplied signature against the shared secret
VerifySignature_skip(d) == TRUE
VerifySignature(d) == d.sig = [key |-> WebhookSecret, id |-> d.id]

\* thin or snapshot, by the presence of embedded object data
PayloadShape_snapshot(d) == "snapshot"
PayloadShape(d) == IF d.object THEN "snapshot" ELSE "thin"

\* the dedup key check
AlreadySeen_never(seen, id) == FALSE
AlreadySeen(seen, id) == id \in seen

\* the status that answers a delivery with a valid signature
AckStatus_strict(failed) == IF failed THEN 500 ELSE 200
AckStatus(failed) == 200

NoDelivery == [id |-> 1, object |-> TRUE, sig |-> [key |-> "whsec_forged", id |-> 1]]
NoLast ==
  [d |-> NoDelivery, status |-> 0, dup |-> FALSE, fetched |-> 0, attempts |-> 0,
   applied |-> FALSE, failed |-> FALSE]

\* The handler: what it answers and the state it leaves, for delivery d when
\* the follow-up fetch and the business logic succeed or fail as given.
StripeWebhook(d, fetchOk, processOk) ==
  LET same == [seen |-> whSeen, usage |-> whUsage, logs |-> whLogs,
               queue |-> whQueue, fetches |-> whFetches]
      thin == PayloadShape(d) = "thin"
      usable == ~thin \/ fetchOk
      applied == usable /\ processOk
  IN IF ~VerifySignature(d)
     THEN same @@ [last |-> [NoLast EXCEPT !.d = d, !.status = 401]]
     ELSE IF AlreadySeen(whSeen, d.id)
     THEN same @@
          [last |-> [NoLast EXCEPT !.d = d, !.status = AckStatus(FALSE), !.dup = TRUE]]
     ELSE [seen |-> whSeen \cup {d.id},
           usage |-> IF applied THEN whUsage + 1 ELSE whUsage,
           logs |-> IF applied
                    THEN Append(whLogs, [id |-> d.id,
                                         source |-> IF thin THEN "fetched" ELSE "embedded"])
                    ELSE whLogs,
           queue |-> IF applied THEN whQueue ELSE whQueue \cup {[id |-> d.id, object |-> d.object]},
           fetches |-> IF thin THEN [whFetches EXCEPT ![d.id] = @ + 1] ELSE whFetches,
           last |-> [d |-> d, status |-> AckStatus(~applied), dup |-> FALSE,
                     fetched |-> IF thin THEN 1 ELSE 0,
                     attempts |-> IF usable THEN 1 ELSE 0,
                     applied |-> applied, failed |-> ~applied]]

WebhookInit ==
  /\ whSeen = {}
  /\ whUsage = 0
  /\ whLogs = <<>>
  /\ whQueue = {}
  /\ whFetches = [i \in EventIds |-> 0]
  /\ whCount = 0
  /\ whLast = NoLast

\* the provider (or anyone else) posts a delivery
Deliver ==
  /\ whCount < MaxDeliveries
  /\ \E d \in Deliveries, fetchOk \in BOOLEAN, processOk \in BOOLEAN :
       LET r == StripeWebhook(d, fetchOk, processOk)
       IN /\ whSeen' = r.seen
          /\ whUsage' = r.usage
          /\ whLogs' = r.logs
          /\ whQueue' = r.queue
          /\ whFetches' = r.fetches
          /\ whLast' = r.last
  /\ whCount' = whCount + 1
  /\ UNCHANGED <<ckVars, pgVars, auVars, opsVars>>

\* the out-of-band retry of a queued event succeeds
RetryQueued ==
  /\ \E q \in whQueue :
       /\ whQueue' = whQueue \ {q}
       /\ whUsage' = whUsage + 1
       /\ whLogs' = Append(whLogs, [id |-> q.id,
                                    source |-> IF q.object THEN "embedded" ELSE "fetched"])
       /\ whFetches' = IF q.object THEN whFetches
                       ELSE [whFetches EXCEPT ![q.id] = @ + 1]
  /\ UNCHANGED <<whSeen, whCount, whLast>>
  /\ UNCHANGED <<ckVars, pgVars, auVars, opsVars>>

WebhookNext == Deliver \/ RetryQueued


\* ------------------------------------------------------------------------
\* Login: responses of POST {API_URL}/api/v1/users/login
\* ------------------------------------------------------------------------
ApiUrl == "https://api.replymint.test"
\* credentials?.email / the email field of the sign-in form
EmailVals == {Undefined, Str(""), Str("a@x.io")}
TokenVals == {Undefined, Str("jwt_1"), Str("jwt_2")}

\* data.user of a login response: absent, or an object whose role and
\* plan_tier may be missing
NoUser == [k |-> "absent", role |-> Undefined, plan_tier |-> Undefined]
UserVals ==
  {NoUser,
   [k |-> "obj", role |-> Str("admin"), plan_tier |-> Str("growth")],
   [k |-> "obj", role |-> Undefined, plan_tier |-> Undefined]}

NoLoginBody == [k |-> "null", token |-> Undefined, user |-> NoUser]
LoginOkBodies ==
  {[k |-> "unparsable", token |-> Undefined, user |-> NoUser], NoLoginBody}
  \cup {[k |-> "obj", token |-> t, user |-> u] : t \in TokenVals, u \in UserVals}
LoginErrStatuses == {400, 401, 403, 404, 500}
LoginOutcomes ==
  {[k |-> "throw", status |-> 0, body |-> NoLoginBody]}
  \cup {[k |-> "resp", status |-> 200, body |-> b] : b \in LoginOkBodies}
  \cup {[k |-> "resp", status |-> st, body |-> NoLoginBody] : st \in LoginErrStatuses}
NoLogin == [k |-> "none", status |-> 0, body |-> NoLoginBody]

\* ------------------------------------------------------------------------
\* Sign-in page: handleSubmit
\* ------------------------------------------------------------------------
NoAlert == "-"
ConfigAlert == "Configuration error: API URL not set. Please contact support."
GenericLoginError == "Login failed. Please try again."

\* the errorMessage handleSubmit alerts for a non-2xx status
ErrorMessage_generic(status) == "Login failed. Please try again."
ErrorMessage(status) ==
  CASE status = 404 ->
         "User not found. Please check your email or sign up for a new account."
    [] status = 401 -> "Invalid credentials. Please check your email."
    [] status = 500 -> "Server error. Please try again later."
    [] status = 403 -> "Account disabled. Please contact support."
    [] OTHER -> GenericLoginError

\* localStorage.setItem(key, value): the value is converted to a string
NoItem == [k |-> "none", v |-> "", role |-> "", plan_tier |-> ""]
ToStorage(x) ==
  [k |-> "text", v |-> IF x.t = "undefined" THEN "undefined"
                       ELSE IF x.t = "null" THEN "null" ELSE x.v,
   role |-> "", plan_tier |-> ""]

\* localStorage.setItem("userData", JSON.stringify(data.user)): the text of
\* an object leaves out its undefined members; JSON.stringify(undefined) is
\* undefined, stored as the text "undefined"
Member(x) == IF x.t = "undefined" THEN "" ELSE x.v
StoredUser(user) ==
  IF user.k = "absent" THEN ToStorage(Undefined)
  ELSE [k |-> "json", v |-> "", role |-> Member(user.role),
        plan_tier |-> Member(user.plan_tier)]

\* if (!email) return;
NoEmail_never(email) == FALSE
NoEmail(email) == ~Truthy(email)

\* finally { setIsLoading(false) }: isLoading after handleSubmit completed
FinallyLoading_unlessThrown(out) == out.k = "throw"
FinallyLoading(out) == FALSE

\* what handleSubmit leaves in localStorage on a response; a body that does
\* not parse, or null, throws before the first setItem
StoresToken_always(out) == out.k = "resp"
StoresToken(out) ==
  out.k = "resp" /\ Ok(out.status) /\ out.body.k = "obj"

\* ------------------------------------------------------------------------
\* NextAuth: authorize, jwt and session callbacks
\* ------------------------------------------------------------------------
NullUser == [k |-> "null", role |-> Undefined, plan_tier |-> Undefined,
             backendToken |-> Undefined]
\* a || b
OrElse(a, b) == IF Truthy(a) THEN a ELSE b

\* authorize(credentials): null, or the user built from a 2xx body; reading
\* data.user.tenantId throws for a body without user, and the catch falls
\* through to `return null`
authorize_anyStatus(email, out) ==
  IF ~Truthy(email) THEN NullUser
  ELSE IF out.k = "resp" /\ out.body.k = "obj" /\ out.body.user.k = "obj"
  THEN [k |-> "obj",
        role |-> OrElse(out.body.user.role, Str("user")),
        plan_tier |-> OrElse(out.body.user.plan_tier, Str("starter")),
        backendToken |-> out.body.token]
  ELSE NullUser
authorize(email, out) ==
  IF ~Truthy(email) THEN NullUser
  ELSE IF out.k = "resp" /\ Ok(out.status) /\ out.body.k = "obj"
          /\ out.body.user.k = "obj"
  THEN [k |-> "obj",
        role |-> OrElse(out.body.user.role, Str("user")),
        plan_tier |-> OrElse(out.body.user.plan_tier, Str("starter")),
        backendToken |-> out.body.token]
  ELSE NullUser

\* the JWT: callbacks.jwt. The token NextAuth hands to the callback on the
\* initial sign-in has neither backendToken nor user.
NoJwt == [k |-> "none", backendToken |-> Undefined, user |-> NoUser]
FreshToken == [k |-> "jwt", backendToken |-> Undefined, user |-> NoUser]
\* if (account && user): only the initial sign-in calls the backend
CallsLogin_always(initial) == TRUE
CallsLogin(initial) == initial
\* token.backendToken and token.user are assigned only from a 2xx body that
\* parses to an object; in every other case the token is returned as it came
jwt(token, initial, out) ==
  IF CallsLogin(initial) /\ out.k = "resp" /\ Ok(out.status) /\ out.body.k = "obj"
  THEN [token EXCEPT !.backendToken = out.body.token, !.user = out.body.user]
  ELSE token

\* callbacks.session: session.user = token.user,
\* session.backendToken = token.backendToken
session(token) == [user |-> token.user, backendToken |-> token.backendToken]

\* ------------------------------------------------------------------------
\* AuthContext
\* ------------------------------------------------------------------------
Session == session(naJwt)
isLoading == naStatus = "loading"
isAuthenticated == naStatus = "authenticated"
\* user: session?.user || null
HasUser == isAuthenticated /\ Session.user.k = "obj"
UserRole == IF HasUser THEN Session.user.role ELSE Undefined
\* session?.backendToken ? setBackendToken(session.backendToken)
\*                       : setBackendToken(null)
ContextToken_keep ==
  IF naStatus = "authenticated" /\ Truthy(naJwt.backendToken)
  THEN naJwt.backendToken ELSE acToken
ContextToken ==
  IF isAuthenticated /\ Truthy(Session.backendToken)
  THEN Session.backendToken ELSE Null

\* ------------------------------------------------------------------------
\* ProtectedRoute
\* ------------------------------------------------------------------------
SignInPath == "/auth/signin"
DashboardPath == "/dashboard"
AdminPath == "/admin"
SettingsPath == "/settings"
HomePath == "/"
Pages == {SignInPath, DashboardPath, AdminPath, SettingsPath, HomePath}
\* the pages wrapped in <ProtectedRoute>
Protected == {DashboardPath, AdminPath, SettingsPath}
requireAdmin == auLoc = AdminPath

\* if (!isLoading && !isAuthenticated) router.push("/auth/signin")
RedirectsToSignIn_whileLoading(loading, authenticated) == ~authenticated
RedirectsToSignIn(loading, authenticated) == ~loading /\ ~authenticated

\* if (requireAdmin && user && user.role !== "admin") router.push("/dashboard")
RedirectsToDashboard(admin, hasUser, role) ==
  admin /\ hasUser /\ role # Str("admin")

\* if (requireAdmin && user?.role !== "admin"): the Access Denied card
AccessDenied_effectCondition(admin, hasUser, role) ==
  admin /\ hasUser /\ role # Str("admin")
AccessDenied(admin, hasUser, role) ==
  admin /\ (~hasUser \/ role # Str("admin"))

\* what ProtectedRoute returns
Render_noAuthCheck(loading, authenticated, admin, hasUser, role) ==
  IF loading THEN "spinner"
  ELSE IF AccessDenied(admin, hasUser, role) THEN "denied"
  ELSE "children"
Render(loading, authenticated, admin, hasUser, role) ==
  IF loading THEN "spinner"
  ELSE IF ~authenticated THEN "null"
  ELSE IF AccessDenied(admin, hasUser, role) THEN "denied"
  ELSE "children"

\* what the tab shows inside <ProtectedRoute>
Rendered ==
  IF auLoc \in Protected
  THEN Render(isLoading, isAuthenticated, requireAdmin, HasUser, UserRole)
  ELSE "public"
\* React has run the effects of the last render
Flushed == ~acPending /\ ~prPending /\ ~prAdminPending

\* `Bearer ${backendToken}`
Bearer(token) ==
  "Bearer " \o (IF token.t = "undefined" THEN "undefined"
                ELSE IF token.t = "null" THEN "null" ELSE token.v)
NoHeader == "-"

\* the Save button: disabled={isSaving}
SaveDisabled_never(isSaving) == FALSE
SaveDisabled(isSaving) == isSaving
SavedAlert == "Settings saved successfully!"
SaveFailedAlert == "Failed to save settings"
SaveOutcomes == {"ok", "not ok", "throw"}
\* the most PUT requests of the settings page followed at one time
MaxSaves == 2

\* ------------------------------------------------------------------------
\* Dashboard page: fetchDashboardData
\* ------------------------------------------------------------------------
\* dashboardData: null ("-"), or what setDashboardData(data.data) was given
NoDashboardData == "-"
OverviewData == {"undefined", "starter: 3 of 100", "growth: 40 of 1000"}
OverviewStatuses == {200, 401, 500}
\* GET /api/v1/dashboard/overview: a rejected fetch, or a response whose
\* body does not parse, is null, or is an object with or without `data`
OverviewOutcomes ==
  {[k |-> "throw", status |-> 0, body |-> "null"]}
  \cup {[k |-> "resp", status |-> st, body |-> b] :
          st \in OverviewStatuses, b \in {"unparsable", "null"} \cup OverviewData}
NoOverview == [k |-> "none", status |-> 0, body |-> "null"]

\* if (response.ok) { const data = await response.json();
\*                    setDashboardData(data.data); }
DataAfter_anyStatus(data, out) ==
  IF out.k = "resp" /\ out.body \in OverviewData THEN out.body ELSE data
DataAfter(data, out) ==
  IF out.k = "resp" /\ Ok(out.status) /\ out.body \in OverviewData
  THEN out.body ELSE data

\* ------------------------------------------------------------------------
\* Browser tab, sign-in page, NextAuth, AuthContext, ProtectedRoute, settings
\* ------------------------------------------------------------------------
AuthInit ==
  /\ auApiUrl \in {Undefined, Str(ApiUrl)}
  /\ auLoc = HomePath
  /\ auVia = "url"
  /\ lsToken = NoItem
  /\ lsUser = NoItem
  /\ siEmail = Str("")
  /\ siIsLoading = FALSE
  /\ siAlert = NoAlert
  /\ siLast = NoLogin
  /\ naPc = "idle"
  /\ naUser = NullUser
  /\ naLast = NoLogin
  /\ naLogins = 0
  /\ naJwt = NoJwt
  /\ naStatus = "loading"
  /\ acToken = Null
  /\ acPending = FALSE
  /\ prPending = FALSE
  /\ prAdminPending = FALSE
  /\ stIsSaving = FALSE
  /\ stSent = NoHeader
  /\ stInFlight = 0
  /\ stAlert = NoAlert
  /\ dashIsLoading = TRUE
  /\ dashIsRefreshing = FALSE
  /\ dashData = NoDashboardData
  /\ dashSent = NoHeader
  /\ dashFetching = FALSE
  /\ dashLast = NoOverview

ckpgwhVars == <<ckVars, pgVars, whVars>>
lsVars == <<lsToken, lsUser>>
naVars == <<naPc, naUser, naLast, naLogins, naJwt>>
siVars == <<siEmail, siIsLoading, siAlert, siLast>>
stVars == <<stIsSaving, stSent, stInFlight, stAlert>>
prVars == <<prPending, prAdminPending>>
dashVars == <<dashIsLoading, dashIsRefreshing, dashData, dashSent, dashFetching, dashLast>>
\* no request of a page is in flight
Quiet == ~siIsLoading /\ ~stIsSaving /\ naPc = "idle"

\* the state of a page's components when it mounts (useState initial values)
Mounted ==
  /\ siEmail' = Str("")
  /\ siIsLoading' = FALSE
  /\ siAlert' = NoAlert
  /\ stIsSaving' = FALSE
  /\ stSent' = NoHeader
  /\ stInFlight' = 0
  /\ stAlert' = NoAlert
  /\ dashIsLoading' = TRUE
  /\ dashIsRefreshing' = FALSE
  /\ dashData' = NoDashboardData
  /\ dashSent' = NoHeader
  /\ dashFetching' = FALSE
  /\ dashLast' = NoOverview

\* a document load: the session is unknown until it is fetched, AuthProvider
\* starts with backendToken null (what its effect sets without a session),
\* and a ProtectedRoute that mounts has its effects due
Loaded(to, via) ==
  /\ auLoc' = to
  /\ auVia' = via
  /\ naStatus' = "loading"
  /\ acToken' = Null
  /\ acPending' = FALSE
  /\ prPending' = (to \in Protected)
  /\ prAdminPending' = (to \in Protected)
  /\ Mounted

\* the user opens a page by its address
OpenPage ==
  /\ Quiet /\ Flushed
  /\ \E to \in Pages : Loaded(to, "url")
  /\ siLast' = NoLogin
  /\ UNCHANGED <<auApiUrl, lsVars, naVars, ckpgwhVars, opsVars>>

\* useSession resolves: the session endpoint runs the jwt callback on the
\* cookie's token (no account, no user), and the status follows the cookie
SessionLoaded ==
  /\ naStatus = "loading" /\ Flushed
  /\ \E out \in IF CallsLogin(FALSE) THEN LoginOutcomes ELSE {NoLogin} :
       naJwt' = IF naJwt.k = "jwt" THEN jwt(naJwt, FALSE, out) ELSE naJwt
  /\ naLogins' = IF naJwt.k = "jwt" /\ CallsLogin(FALSE) THEN naLogins + 1 ELSE naLogins
  /\ naStatus' = IF naJwt.k = "jwt" THEN "authenticated" ELSE "unauthenticated"
  /\ acPending' = TRUE
  /\ prPending' = (auLoc \in Protected)
  /\ prAdminPending' = (auLoc \in Protected)
  /\ UNCHANGED <<auApiUrl, auLoc, auVia, lsVars, siVars, naPc, naUser, naLast,
                 acToken, stVars, dashVars, ckpgwhVars, opsVars>>

\* the links Navigation renders
Links ==
  {HomePath}
  \cup (IF isAuthenticated THEN {DashboardPath, SettingsPath} ELSE {SignInPath})
  \cup (IF isAuthenticated /\ UserRole = Str("admin") THEN {AdminPath} ELSE {})

\* a click on a Navigation link: a client-side route change
FollowLink ==
  /\ Quiet /\ Flushed
  /\ \E to \in Links \ {auLoc} :
       /\ auLoc' = to
       /\ prPending' = (to \in Protected)
       /\ prAdminPending' = (to \in Protected)
  /\ auVia' = "link"
  /\ Mounted
  /\ siLast' = NoLogin
  /\ UNCHANGED <<auApiUrl, lsVars, naVars, naStatus, acToken, acPending, ckpgwhVars, opsVars>>

\* onChange of the email input: setEmail(e.target.value)
TypeEmail ==
  /\ auLoc = SignInPath /\ Flushed
  /\ \E email \in (EmailVals \ {Undefined}) \ {siEmail} : siEmail' = email
  /\ UNCHANGED <<auApiUrl, auLoc, auVia, lsVars, siIsLoading, siAlert, siLast, naVars,
                 naStatus, acToken, acPending, prVars, stVars, dashVars, ckpgwhVars, opsVars>>

\* handleSubmit up to its await. Without an API URL, setIsLoading(true),
\* the alert and the finally block run in one task: isLoading is false
\* again before the page renders.
Submit ==
  /\ auLoc = SignInPath /\ ~siIsLoading /\ Flushed /\ naPc = "idle"
  /\ IF NoEmail(siEmail) THEN UNCHANGED <<siIsLoading, siAlert, siLast>>
     ELSE IF ~Truthy(auApiUrl)
     THEN siAlert' = ConfigAlert /\ UNCHANGED <<siIsLoading, siLast>>
     ELSE siIsLoading' = TRUE /\ siAlert' = NoAlert /\ siLast' = NoLogin
  /\ UNCHANGED <<auApiUrl, auLoc, auVia, lsVars, siEmail, naVars, naStatus, acToken,
                 acPending, prVars, stVars, dashVars, ckpgwhVars, opsVars>>

\* the rest of handleSubmit: the login response, or the rejection of fetch
SubmitResponds ==
  /\ siIsLoading
  /\ \E out \in LoginOutcomes :
       /\ siLast' = out
       /\ IF StoresToken(out)
          THEN /\ lsToken' = ToStorage(out.body.token)
               /\ lsUser' = StoredUser(out.body.user)
               /\ Loaded(DashboardPath, "login")
          ELSE /\ siIsLoading' = FinallyLoading(out)
               /\ siAlert' = IF out.k = "resp" /\ ~Ok(out.status)
                             THEN ErrorMessage(out.status) ELSE NoAlert
               /\ UNCHANGED <<lsVars, auLoc, auVia, siEmail, naStatus, acToken, acPending,
                              prVars, stVars, dashVars>>
  /\ UNCHANGED <<auApiUrl, naVars, ckpgwhVars, opsVars>>

\* NextAuth's credentials sign-in: authorize calls the backend
Authorize ==
  /\ Quiet /\ Flushed /\ naStatus # "loading"
  /\ \E email \in EmailVals,
        out \in IF Truthy(auApiUrl) THEN LoginOutcomes
                ELSE {o \in LoginOutcomes : o.k = "throw"} :
       /\ naLast' = IF Truthy(email) THEN out ELSE NoLogin
       /\ naLogins' = IF Truthy(email) THEN 1 ELSE 0
       /\ naUser' = authorize(email, out)
       /\ naPc' = IF authorize(email, out).k = "obj" THEN "authorized" ELSE "rejected"
  /\ UNCHANGED <<auApiUrl, auLoc, auVia, lsVars, siVars, naJwt, naStatus, acToken,
                 acPending, prVars, stVars, dashVars, ckpgwhVars, opsVars>>

\* the jwt callback of the initial sign-in calls the backend again; the
\* cookie is set and the tab's session follows it
JwtCallback ==
  /\ naPc = "authorized"
  /\ \E out \in IF ~CallsLogin(TRUE) THEN {NoLogin}
                ELSE IF Truthy(auApiUrl) THEN LoginOutcomes
                ELSE {o \in LoginOutcomes : o.k = "throw"} :
       /\ naJwt' = jwt(FreshToken, TRUE, out)
       /\ naLast' = out
  /\ naLogins' = IF CallsLogin(TRUE) THEN naLogins + 1 ELSE naLogins
  /\ naPc' = "issued"
  /\ naUser' = NullUser
  /\ naStatus' = "authenticated"
  /\ acPending' = TRUE
  /\ prPending' = (auLoc \in Protected)
  /\ prAdminPending' = (auLoc \in Protected)
  /\ UNCHANGED <<auApiUrl, auLoc, auVia, lsVars, siVars, acToken, stVars, dashVars,
                 ckpgwhVars, opsVars>>

\* signIn resolves with ok: the sign-in is over
SignInSucceeds ==
  /\ naPc = "issued"
  /\ naPc' = "idle"
  /\ naLast' = NoLogin
  /\ naLogins' = 0
  /\ UNCHANGED <<auApiUrl, auLoc, auVia, lsVars, siVars, naUser, naJwt, naStatus,
                 acToken, acPending, prVars, stVars, dashVars, ckpgwhVars, opsVars>>

\* authorize returned null: the sign-in ends with an error and no session
SignInFails ==
  /\ naPc = "rejected"
  /\ naPc' = "idle"
  /\ naUser' = NullUser
  /\ naLast' = NoLogin
  /\ naLogins' = 0
  /\ UNCHANGED <<auApiUrl, auLoc, auVia, lsVars, siVars, naJwt, naStatus, acToken,
                 acPending, prVars, stVars, dashVars, ckpgwhVars, opsVars>>

\* handleSignOut: signOut({redirect: false}), then router.push("/")
SignOut ==
  /\ Quiet /\ Flushed /\ isAuthenticated
  /\ naJwt' = NoJwt
  /\ naStatus' = "unauthenticated"
  /\ auLoc' = HomePath
  /\ auVia' = "signout"
  /\ acPending' = TRUE
  /\ prPending' = FALSE
  /\ prAdminPending' = FALSE
  /\ Mounted
  /\ siLast' = NoLogin
  /\ UNCHANGED <<auApiUrl, lsVars, naPc, naUser, naLast, naLogins, acToken, ckpgwhVars, opsVars>>

\* AuthProvider's effect on [session]
SyncToken ==
  /\ acPending
  /\ acPending' = FALSE
  /\ acToken' = ContextToken
  /\ UNCHANGED <<auApiUrl, auLoc, auVia, lsVars, siVars, naVars, naStatus, prVars,
                 stVars, dashVars, ckpgwhVars, opsVars>>

\* ProtectedRoute's effect on [isLoading, isAuthenticated, router]
RedirectEffect ==
  /\ prPending
  /\ prPending' = FALSE
  /\ IF RedirectsToSignIn(isLoading, isAuthenticated)
     THEN /\ auLoc' = SignInPath
          /\ auVia' = "guard"
          /\ prAdminPending' = FALSE
          /\ Mounted
     ELSE UNCHANGED <<auLoc, auVia, prAdminPending, siEmail, siIsLoading, siAlert,
                      stVars, dashVars>>
  /\ UNCHANGED <<auApiUrl, lsVars, siLast, naVars, naStatus, acToken, acPending,
                 ckpgwhVars, opsVars>>

\* ProtectedRoute's effect on [requireAdmin, user, router]
AdminEffect ==
  /\ prAdminPending
  /\ prAdminPending' = FALSE
  /\ IF RedirectsToDashboard(requireAdmin, HasUser, UserRole)
     THEN /\ auLoc' = DashboardPath
          /\ auVia' = "adminGuard"
          /\ prPending' = TRUE
          /\ Mounted
     ELSE UNCHANGED <<auLoc, auVia, prPending, siEmail, siIsLoading, siAlert,
                      stVars, dashVars>>
  /\ UNCHANGED <<auApiUrl, lsVars, siLast, naVars, naStatus, acToken, acPending,
                 ckpgwhVars, opsVars>>

\* handleSave up to its await; the Save button is among the children of
\* the settings page's ProtectedRoute
Save ==
  /\ auLoc = SettingsPath /\ Rendered = "children" /\ Flushed /\ naPc = "idle"
  /\ ~SaveDisabled(stIsSaving)
  /\ stInFlight < MaxSaves
  /\ stIsSaving' = TRUE
  /\ stSent' = Bearer(acToken)
  /\ stInFlight' = stInFlight + 1
  /\ UNCHANGED <<auApiUrl, auLoc, auVia, lsVars, siVars, naVars, naStatus, acToken,
                 acPending, prVars, stAlert, dashVars, ckpgwhVars, opsVars>>

\* the rest of handleSave: an alert either way, then setIsSaving(false)
SaveResponds ==
  /\ auLoc = SettingsPath /\ stInFlight > 0
  /\ \E out \in SaveOutcomes :
       stAlert' = IF out = "ok" THEN SavedAlert ELSE SaveFailedAlert
  /\ stIsSaving' = FALSE
  /\ stInFlight' = stInFlight - 1
  /\ UNCHANGED <<auApiUrl, auLoc, auVia, lsVars, siVars, naVars, naStatus, acToken,
                 acPending, prVars, stSent, dashVars, ckpgwhVars, opsVars>>

\* fetchDashboardData(showLoading) up to its await
fetchDashboardData(showLoading) ==
  /\ dashIsLoading' = (showLoading \/ dashIsLoading)
  /\ dashIsRefreshing' = (~showLoading \/ dashIsRefreshing)
  /\ dashSent' = Bearer(acToken)
  /\ dashFetching' = TRUE
  /\ dashLast' = NoOverview
  /\ UNCHANGED <<auApiUrl, auLoc, auVia, lsVars, siVars, naVars, naStatus, acToken,
                 acPending, prVars, stVars, dashData, ckpgwhVars, opsVars>>

\* handleRefresh -> fetchDashboardData(false). The Refresh button is the
\* only caller of fetchDashboardData; it is rendered in the branch of
\* DashboardPage taken when isLoading is false, disabled while refreshing.
HandleRefresh ==
  /\ auLoc = DashboardPath /\ Rendered = "children" /\ Flushed
  /\ ~dashIsLoading /\ ~dashIsRefreshing /\ ~dashFetching
  /\ fetchDashboardData(FALSE)

\* a call of fetchDashboardData with its default argument, as a mount
\* effect would make it; DashboardPage has no such effect
FetchOnMount ==
  /\ auLoc = DashboardPath /\ Rendered = "children" /\ Flushed
  /\ ~dashFetching
  /\ fetchDashboardData(TRUE)

\* the rest of fetchDashboardData: the response, the catch and the finally
DashboardResponds ==
  /\ auLoc = DashboardPath /\ dashFetching
  /\ \E out \in OverviewOutcomes :
       /\ dashLast' = out
       /\ dashData' = DataAfter(dashData, out)
  /\ dashIsLoading' = FALSE
  /\ dashIsRefreshing' = FALSE
  /\ dashFetching' = FALSE
  /\ UNCHANGED <<auApiUrl, auLoc, auVia, lsVars, siVars, naVars, naStatus, acToken,
                 acPending, prVars, stVars, dashSent, ckpgwhVars, opsVars>>

\* DashboardPage has no effect that calls fetchDashboardData, and no state
\* of the page renders the Refresh button before a fetch has completed:
\* HandleRefresh and DashboardResponds are steps no behaviour takes.
AuthNext ==
  \/ OpenPage \/ SessionLoaded \/ FollowLink
  \/ TypeEmail \/ Submit \/ SubmitResponds
  \/ Authorize \/ JwtCallback \/ SignInSucceeds \/ SignInFails \/ SignOut
  \/ SyncToken \/ RedirectEffect \/ AdminEffect
  \/ Save \/ SaveResponds

\* ------------------------------------------------------------------------
\* Backend deploy scripts
\* ------------------------------------------------------------------------
DeployScripts ==
  {"deploy-backend.ps1", "deploy-backend.ps1 (second copy)", "deploy-simple.ps1",
   "deploy.ps1"}
\* the scripts that run `aws s3 mb`, and those that run `sam build`
HasBucket(script) == script # "deploy.ps1"
HasBuild(script) == script # "deploy-simple.ps1"
\* the scripts that test $LASTEXITCODE after `aws s3 mb`; deploy-simple.ps1
\* relies on its catch block alone
ChecksBucket(script) ==
  script \in {"deploy-backend.ps1", "deploy-backend.ps1 (second copy)"}
\* the scripts that test $LASTEXITCODE after `sam deploy`
ChecksDeploy(script) == script # "deploy-simple.ps1"
\* $LASTEXITCODE before any native command has run; also dpExit of a script
\* that has not ended
NoExitCode == -1
\* a native command runs and exits with 0 ("ok") or not ("failed"), or is
\* not a command of the session ("not found"), which raises an error
Native(installed) == IF installed THEN {"ok", "failed"} ELSE {"not found"}
\* a command that did not start leaves $LASTEXITCODE as it was
LastAfter(out, last) ==
  CASE out = "ok" -> 0
    [] out = "failed" -> 1
    [] OTHER -> last
FirstStep(script) == IF HasBucket(script) THEN "bucket" ELSE "build"

DeployInit ==
  /\ dpScript \in DeployScripts
  /\ dpAws \in BOOLEAN
  /\ dpSam \in BOOLEAN
  /\ dpPc = FirstStep(dpScript)
  /\ dpLast \in {NoExitCode, 0, 1}
  /\ dpBucket = "not run"
  /\ dpBuild = "not run"
  /\ dpDeploy = "not run"
  /\ dpExit = NoExitCode

\* try { aws s3 mb ... } catch { exit 1 }: the catch block runs only for an
\* error that is raised, which a non-zero exit code is not
MakeBucket ==
  /\ dpPc = "bucket"
  /\ \E out \in Native(dpAws) :
       /\ dpBucket' = out
       /\ dpLast' = LastAfter(out, dpLast)
       /\ IF out = "not found" \/ (ChecksBucket(dpScript) /\ dpLast' # 0)
          THEN dpPc' = "done" /\ dpExit' = 1
          ELSE /\ dpPc' = (IF HasBuild(dpScript) THEN "build" ELSE "deploy")
               /\ dpExit' = dpExit
  /\ UNCHANGED <<dpScript, dpAws, dpSam, dpBuild, dpDeploy, ssmVars,
                 ckVars, pgVars, whVars, auVars>>

\* sam build, outside any try block: an error that is raised is reported
\* and the script goes on to the test of $LASTEXITCODE
SamBuild ==
  /\ dpPc = "build"
  /\ \E out \in Native(dpSam) :
       /\ dpBuild' = out
       /\ dpLast' = LastAfter(out, dpLast)
       /\ IF dpLast' # 0
          THEN dpPc' = "done" /\ dpExit' = 1
          ELSE dpPc' = "deploy" /\ dpExit' = dpExit
  /\ UNCHANGED <<dpScript, dpAws, dpSam, dpBucket, dpDeploy, ssmVars,
                 ckVars, pgVars, whVars, auVars>>

\* sam deploy and the rest of the script, which only reports
SamDeploy ==
  /\ dpPc = "deploy"
  /\ \E out \in Native(dpSam) :
       /\ dpDeploy' = out
       /\ dpLast' = LastAfter(out, dpLast)
       /\ dpExit' = (IF ChecksDeploy(dpScript) /\ dpLast' # 0 THEN 1 ELSE 0)
  /\ dpPc' = "done"
  /\ UNCHANGED <<dpScript, dpAws, dpSam, dpBucket, dpBuild, ssmVars,
                 ckVars, pgVars, whVars, auVars>>

DeployNext == MakeBucket \/ SamBuild \/ SamDeploy

\* ------------------------------------------------------------------------
\* SSM parameter scripts
\* ------------------------------------------------------------------------
Environments == {"staging", "prod"}
InitOrder ==
  <<"MAILGUN_API_KEY", "MAILGUN_DOMAIN_OUTBOUND", "MAILGUN_DOMAIN_INBOUND",
    "STRIPE_SECRET_KEY", "OPENAI_API_KEY", "JWT_SECRET", "ALLOWED_ORIGINS",
    "SLACK_WEBHOOK_URL">>
InitNames == {InitOrder[i] : i \in DOMAIN InitOrder}
\* a parameter init does not list
OtherName == "FEATURE_FLAG"
ParamNames == InitNames \cup {OtherName}
Placeholder == "replace_me"
AllowedOrigins == "https://replymint.vercel.app,https://replymint-staging.vercel.app"
ParamTypes == {"SecureString", "String"}
InitValue(name) == IF name = "ALLOWED_ORIGINS" THEN AllowedOrigins ELSE Placeholder
InitType(name) ==
  IF name \in {"MAILGUN_DOMAIN_OUTBOUND", "MAILGUN_DOMAIN_INBOUND", "ALLOWED_ORIGINS"}
  THEN "String" ELSE "SecureString"
InitDesc(name, env) ==
  CASE name = "MAILGUN_API_KEY" -> "Mailgun API key for " \o env
    [] name = "MAILGUN_DOMAIN_OUTBOUND" -> "Mailgun outbound domain"
    [] name = "MAILGUN_DOMAIN_INBOUND" -> "Mailgun inbound domain"
    [] name = "STRIPE_SECRET_KEY" -> "Stripe secret key for " \o env
    [] name = "OPENAI_API_KEY" -> "OpenAI API key for " \o env
    [] name = "JWT_SECRET" -> "JWT secret for " \o env
    [] name = "ALLOWED_ORIGINS" -> "Allowed CORS origins"
    [] OTHER -> "Slack webhook URL (optional)"
UpdateNames == {"", "ALLOWED_ORIGINS", OtherName}
UpdateValues == {"", "sk_test_xxx"}
NoParam == [value |-> "", type |-> "none", desc |-> ""]
NoRun == [action |-> "none", env |-> "", name |-> ""]
\* the values that start with http:// or https://
IsUrl(val) == val = AllowedOrigins
\* aws ssm put-parameter --name .. --value $Val --type .. --description $Desc
\* --overwrite | Out-Null: the call stores the parameter unless the CLI has
\* no credentials, reads --value as a URL to fetch, or is handed
\* `--description --overwrite` because the shell dropped the empty string
PutSucceeds(val, desc) ==
  /\ ssmCreds
  /\ ~(ssmFollowsUrl /\ IsUrl(val))
  /\ ~(ssmDropsEmpty /\ desc = "")
PutParam(store, env, name, val, type, desc) ==
  IF PutSucceeds(val, desc)
  THEN [store EXCEPT ![env][name] = [value |-> val, type |-> type, desc |-> desc]]
  ELSE store
RECURSIVE PutPlaceholders(_, _, _)
PutPlaceholders(store, env, names) ==
  IF names = <<>> THEN store
  ELSE PutPlaceholders(
         PutParam(store, env, Head(names), InitValue(Head(names)),
                  InitType(Head(names)), InitDesc(Head(names), env)),
         env, Tail(names))

SsmInit ==
  /\ ssmCreds \in BOOLEAN
  /\ ssmFollowsUrl \in BOOLEAN
  /\ ssmDropsEmpty \in BOOLEAN
  /\ ssmStore = [env \in Environments |-> [name \in ParamNames |-> NoParam]]
  /\ ssmLast = NoRun

\* aws-ssm.ps1 -Action init
ActionInit ==
  /\ \E env \in Environments :
       /\ ssmStore' = PutPlaceholders(ssmStore, env, InitOrder)
       /\ ssmLast' = [action |-> "init", env |-> env, name |-> ""]
  /\ UNCHANGED <<ssmCreds, ssmFollowsUrl, ssmDropsEmpty, dpVars,
                 ckVars, pgVars, whVars, auVars>>

\* aws-ssm.ps1 -Action update
ActionUpdate ==
  /\ \E env \in Environments, name \in UpdateNames, value \in UpdateValues,
        type \in ParamTypes :
       /\ ssmStore' = (IF name = "" \/ value = ""
                       THEN ssmStore
                       ELSE PutParam(ssmStore, env, name, value, type, ""))
       /\ ssmLast' = [action |-> "update", env |-> env, name |-> name]
  /\ UNCHANGED <<ssmCreds, ssmFollowsUrl, ssmDropsEmpty, dpVars,
                 ckVars, pgVars, whVars, auVars>>

\* aws-ssm.ps1 -Action list
ActionList ==
  /\ \E env \in Environments :
       ssmLast' = [action |-> "list", env |-> env, name |-> ""]
  /\ UNCHANGED <<ssmCreds, ssmFollowsUrl, ssmDropsEmpty, ssmStore, dpVars,
                 ckVars, pgVars, whVars, auVars>>

\* setup-aws.ps1, whose Create-SSMParameter makes the calls of Put-Param
SetupAws ==
  /\ \E env \in Environments :
       /\ ssmStore' = PutPlaceholders(ssmStore, env, InitOrder)
       /\ ssmLast' = [action |-> "setup", env |-> env, name |-> ""]
  /\ UNCHANGED <<ssmCreds, ssmFollowsUrl, ssmDropsEmpty, dpVars,
                 ckVars, pgVars, whVars, auVars>>

SsmNext == ActionInit \/ ActionUpdate \/ ActionList \/ SetupAws

\* one session and one AWS CLI, for the specifications of the web application
DeployIdle == dpScript = "deploy.ps1" /\ dpAws /\ dpSam /\ dpLast = NoExitCode
SsmIdle == ssmCreds /\ ~ssmFollowsUrl /\ ~ssmDropsEmpty
OpsIdle == DeployIdle /\ SsmIdle

Init == CheckoutInit /\ PricingInit /\ WebhookInit /\ AuthInit /\ DeployInit /\ SsmInit
Next == CheckoutNext \/ WebhookNext \/ AuthNext \/ DeployNext \/ SsmNext
Spec == Init /\ [][Next]_vars
\* the checkout bridge and the pricing page alone
CheckoutSpecInit ==
  /\ Init
  /\ OpsIdle
  /\ auApiUrl = Str(ApiUrl)
CheckoutSpec == CheckoutSpecInit /\ [][CheckoutNext]_vars
\* the webhook intake alone, beside one fixed frontend deployment
WebhookSpecInit ==
  /\ Init
  /\ OpsIdle
  /\ ckHandler = "route"
  /\ ckEnv = [STRIPE_SECRET_KEY |-> Undefined, NEXT_PUBLIC_BACKEND_URL |-> Undefined]
  /\ auApiUrl = Str(ApiUrl)
\* sign-in, session and protected pages alone
AuthSpecInit ==
  /\ Init
  /\ OpsIdle
  /\ ckHandler = "route"
  /\ ckEnv = [STRIPE_SECRET_KEY |-> Undefined, NEXT_PUBLIC_BACKEND_URL |-> Undefined]
AuthSpec == AuthSpecInit /\ [][AuthNext]_vars
\* fetchDashboardData alone, called on the dashboard of an authenticated
\* user whose effects have run
DashboardSpecInit ==
  /\ CheckoutInit /\ PricingInit /\ WebhookInit
  /\ DeployInit /\ SsmInit /\ OpsIdle
  /\ ckHandler = "route"
  /\ ckEnv = [STRIPE_SECRET_KEY |-> Undefined, NEXT_PUBLIC_BACKEND_URL |-> Undefined]
  /\ auApiUrl = Str(ApiUrl)
  /\ auLoc = DashboardPath
  /\ auVia = "url"
  /\ lsToken = NoItem
  /\ lsUser = NoItem
  /\ siEmail = Str("")
  /\ siIsLoading = FALSE
  /\ siAlert = NoAlert
  /\ siLast = NoLogin
  /\ naPc = "idle"
  /\ naUser = NullUser
  /\ naLast = NoLogin
  /\ naLogins = 0
  /\ naJwt \in {[k |-> "jwt", backendToken |-> t, user |-> u] :
                  t \in TokenVals, u \in UserVals}
  /\ naStatus = "authenticated"
  /\ acToken = (IF Truthy(naJwt.backendToken) THEN naJwt.backendToken ELSE Null)
  /\ acPending = FALSE
  /\ prPending = FALSE
  /\ prAdminPending = FALSE
  /\ stIsSaving = FALSE
  /\ stSent = NoHeader
  /\ stInFlight = 0
  /\ stAlert = NoAlert
  /\ dashIsLoading = TRUE
  /\ dashIsRefreshing = FALSE
  /\ dashData = NoDashboardData
  /\ dashSent = NoHeader
  /\ dashFetching = FALSE
  /\ dashLast = NoOverview
DashboardNext == FetchOnMount \/ HandleRefresh \/ DashboardResponds
DashboardSpec == DashboardSpecInit /\ [][DashboardNext]_vars
\* one deployment of the web application, for the specifications of the scripts
AppIdle ==
  /\ CheckoutInit /\ PricingInit /\ WebhookInit /\ AuthInit
  /\ ckHandler = "route"
  /\ ckEnv = [STRIPE_SECRET_KEY |-> Undefined, NEXT_PUBLIC_BACKEND_URL |-> Undefined]
  /\ auApiUrl = Str(ApiUrl)
\* the deploy scripts alone
DeploySpecInit == AppIdle /\ DeployInit /\ SsmInit /\ SsmIdle
DeploySpec == DeploySpecInit /\ [][DeployNext]_vars
\* the SSM parameter scripts alone
SsmSpecInit == AppIdle /\ DeployInit /\ DeployIdle /\ SsmInit
SsmSpec == SsmSpecInit /\ [][SsmNext]_vars
WebhookSpec == WebhookSpecInit /\ [][WebhookNext]_vars

\* ------------------------------------------------------------------------
\* Checkout bridge: properties
\* ------------------------------------------------------------------------
Answered == ckPc = "done"
Parsed == ckReq.body.k # "malformed"
PriceId == PriceIdOf(ckReq.body)
WellFormed == Parsed /\ Truthy(PriceId)
Proxied == ckHandler \in {"route", "superseded"}
\* the remote call failed: a thrown error or a non-2xx response
RemoteFailed == ckOut.k = "throw" \/ (ckOut.k = "resp" /\ ~Ok(ckOut.status))
\* the remote call succeeded with a session url, in the shapes the handlers
\* declare: Session.url, {url} or {data: {url}}
RemoteGaveUrl ==
  \/ ckOut.k = "session" /\ Truthy(ckOut.url)
  \/ /\ ckOut.k = "resp" /\ Ok(ckOut.status) /\ ckOut.body.k = "obj"
     /\ \/ ckOut.body.data.k = "absent" /\ Truthy(ckOut.body.url)
        \/ ckOut.body.data.k = "obj" /\ Truthy(ckOut.body.data.url)
\* the remote call succeeded without any url
RemoteGaveNoUrl ==
  \/ ckOut.k = "session" /\ ~Truthy(ckOut.url)
  \/ /\ ckOut.k = "resp" /\ Ok(ckOut.status) /\ ckOut.body.k = "obj"
     /\ ~Truthy(ckOut.body.url)
     /\ \/ ckOut.body.data.k = "absent"
        \/ ckOut.body.data.k = "obj" /\ ~Truthy(ckOut.body.data.url)

\* C1: a request whose (parsed) body has no priceId, or a falsy one, is
\* answered 400 'Missing priceId' and no remote call is made.
C1_MissingPriceIdIs400 ==
  (Answered /\ Parsed /\ ~Truthy(PriceId)) =>
    /\ ckResp.status = 400
    /\ ckResp.error = "Missing priceId"
    /\ ckResp.calls = <<>>
C1_Witness ==
  /\ Answered /\ ckReq.body.k = "obj" /\ PriceId = Str("")
  /\ ckResp.status = 400 /\ ckResp.calls = <<>>

\* C2 (as claimed): every well-formed request makes exactly one remote
\* session-creation call.
C2_ExactlyOneCall == (Answered /\ WellFormed) => Len(ckResp.calls) = 1
\* C2 (amended): a well-formed request makes exactly one remote call, except
\* in the direct-provider handler without STRIPE_SECRET_KEY, which makes
\* none; the call targets the backend endpoint (proxied handlers) or
\* sessions.create (direct handler) and carries the request's priceId.
C2_OneCallUnlessMisconfigured ==
  (Answered /\ WellFormed) =>
    IF ckHandler = "direct" /\ ~Truthy(ckEnv.STRIPE_SECRET_KEY)
    THEN ckResp.calls = <<>>
    ELSE /\ Len(ckResp.calls) = 1
         /\ ckResp.calls[1].price = PriceId
         /\ ckResp.calls[1].target = (IF Proxied THEN "backend" ELSE "stripe")
         /\ Proxied => ckResp.calls[1].path = CreateSessionPath
C2_Witness ==
  /\ Answered /\ WellFormed /\ ckHandler = "route"
  /\ Len(ckResp.calls) = 1 /\ ckResp.status = 200

\* C3 (as claimed): a 200 response always carries a non-empty url, and a
\* remote call that succeeds without a url is answered 502.
C3_OkCarriesUrl ==
  Answered =>
    /\ ckResp.status = 200 => Truthy(ckResp.url)
    /\ (WellFormed /\ ckResp.calls # <<>> /\ RemoteGaveNoUrl) => ckResp.status = 502

\* C4 (as claimed): a failed remote call is answered 500 with an error
\* message, and the call is not repeated.
C4_FailureIs500 ==
  (Answered /\ ckResp.calls # <<>> /\ RemoteFailed) =>
    /\ ckResp.status = 500
    /\ ckResp.error # NoError
    /\ Len(ckResp.calls) = 1
\* C4 (amended): a thrown error is answered 500; a non-2xx backend response
\* is answered with the backend's own status (500 when the error body is
\* null or the status admits no body); either way with an error message,
\* never a url, and without a second call.
C4_FailureIsSurfaced ==
  (Answered /\ ckResp.calls # <<>> /\ RemoteFailed) =>
    /\ ckResp.status =
         (IF ckOut.k = "throw" \/ ckOut.body.k = "null" \/ NullBodyStatus(ckOut.status)
          THEN 500 ELSE ckOut.status)
    /\ ~Ok(ckResp.status)
    /\ ckResp.error # NoError
    /\ ckResp.url = Undefined
    /\ Len(ckResp.calls) = 1
C4_Witness ==
  /\ Answered /\ ckHandler = "route" /\ ckOut.k = "resp" /\ ckOut.status = 400
  /\ ckResp.status = 400 /\ ckResp.error = "Invalid price" /\ Len(ckResp.calls) = 1

\* C5 (as claimed): a body that is not JSON is rejected with 400 and no
\* remote call is made.
C5_MalformedIs400 ==
  (Answered /\ ~Parsed) => (ckResp.status = 400 /\ ckResp.calls = <<>>)

Delivered == whCount' = whCount + 1
\* the signature was not computed with the shared secret over this event
InvalidSignature(d) == d.sig.key # WebhookSecret \/ d.sig.id # d.id
LoggedIds == {whLogs[i].id : i \in DOMAIN whLogs}
QueuedIds == {q.id : q \in whQueue}
BackendState == <<whSeen, whUsage, whLogs, whQueue, whFetches>>

C19_NavigatesOnlyOnUrl ==
  /\ [][pgLocation' # pgLocation =>
          /\ pgPc = "waiting" /\ ckPc = "done" /\ pgSent = 1
          /\ Ok(ckResp.status) /\ Truthy(ckResp.url)
          /\ pgLocation' = ckResp.url]_vars
  /\ [][(pgPc = "waiting" /\ pgPc' = "idle") => pgLocation' = Str(PricingPath)]_vars
  /\ [](pgSent = (IF Truthy(pgClicked) THEN 1 ELSE 0))
  /\ [](pgPc = "waiting" => (pgSent = 1 /\ PriceId = pgClicked))
C19_Witness ==
  /\ pgPc = "left" /\ pgLocation = Str(CheckoutUrl)
  /\ Ok(ckResp.status) /\ pgClicked = Str("price_123")

\* the 2xx bodies on which route.ts and its superseded copy part ways: a body
\* that is no object, or one whose `data` is present without a usable url
\* (null, a primitive, or an object whose url is undefined or null)
DivergentBody(out) ==
  /\ out.k = "resp" /\ Ok(out.status)
  /\ \/ out.body.k \in {"null", "prim"}
     \/ /\ out.body.k = "obj"
        /\ \/ out.body.data.k = "null"
           \/ /\ out.body.data.k = "prim" \/ (out.body.data.k = "obj" /\ Nullish(out.body.data.url))
              /\ Truthy(out.body.url)

\* C20 (as claimed): the response of either backend-proxied handler is the
\* one the other gives for the same request and backend response.
C20_ProxiedIdentical ==
  Answered =>
    /\ ckHandler = "route" => ckResp = POST_superseded(ckReq, ckEnv, ckOut)
    /\ ckHandler = "superseded" => ckResp = POST_route(ckReq, ckEnv, ckOut)
\* C20 (amended): the two agree on every request and backend response except
\* the 2xx bodies of DivergentBody, and on those they differ.
C20_IdenticalUnlessDivergent ==
  (Answered /\ Proxied) =>
    LET other == IF ckHandler = "route" THEN POST_superseded(ckReq, ckEnv, ckOut)
                 ELSE POST_route(ckReq, ckEnv, ckOut)
    IN (ckResp = other) <=> ~(WellFormed /\ DivergentBody(ckOut))
C20_Witness ==
  /\ Answered /\ ckHandler = "route" /\ WellFormed
  /\ ckOut.k = "resp" /\ ckOut.status = 200 /\ ckOut.body.k = "obj"
  /\ ckOut.body.data.k = "obj" /\ ckOut.body.data.url = Str(CheckoutUrl)
  /\ ckResp = POST_superseded(ckReq, ckEnv, ckOut) /\ ckResp.status = 200

\* C22: a non-2xx backend response is answered with the backend's status
\* and, as error, the backend's detail, or 'Failed to create checkout
\* session' when the detail is absent or the body does not parse; never
\* with a url.
C22_FailureRelayed ==
  (Answered /\ Proxied /\ WellFormed /\ ckOut.k = "resp" /\ ~Ok(ckOut.status)) =>
    /\ ckResp.status = ckOut.status
    /\ ckResp.error =
         (IF ckOut.body.k = "obj" /\ Truthy(ckOut.body.detail)
          THEN ckOut.body.detail.v ELSE "Failed to create checkout session")
    /\ ckResp.url = Undefined

\* ------------------------------------------------------------------------
\* Sign-in, session and protected pages: properties
\* ------------------------------------------------------------------------
LoginFailed(out) == out.k = "resp" /\ ~Ok(out.status)
LoginOk(out) == out.k = "resp" /\ Ok(out.status)
NamedFailures == {404, 401, 403, 500}

\* C11: the sign-in page writes localStorage only on a 2xx login response,
\* and then the stored token and user are the response's; after a failure
\* status (404 among them) the page stays where it is; authorize returns a
\* user only for a 2xx response, with the response's token, its role and
\* plan_tier (defaulted when the response has none), and the session cookie
\* is set only after authorize returned a user.
C11_TokenOnlyOn2xx ==
  /\ [][(lsToken' # lsToken \/ lsUser' # lsUser) => (siIsLoading /\ LoginOk(siLast'))]_vars
  /\ [](auVia = "login" =>
          /\ LoginOk(siLast) /\ auLoc = DashboardPath
          /\ siLast.body.token.t = "str" =>
               (lsToken.k = "text" /\ lsToken.v = siLast.body.token.v)
          /\ siLast.body.user.k = "obj" =>
               /\ lsUser.k = "json"
               /\ lsUser.role = Member(siLast.body.user.role)
               /\ lsUser.plan_tier = Member(siLast.body.user.plan_tier))
  /\ [](LoginFailed(siLast) => auLoc = SignInPath)
  /\ []((naPc # "issued" /\ LoginFailed(naLast)) =>
          (naPc = "rejected" /\ naUser.k = "null"))
  /\ [](naPc = "authorized" =>
          /\ LoginOk(naLast) /\ naUser.k = "obj"
          /\ naUser.backendToken = naLast.body.token
          /\ Truthy(naUser.role) /\ Truthy(naUser.plan_tier)
          /\ Truthy(naLast.body.user.role) => naUser.role = naLast.body.user.role
          /\ Truthy(naLast.body.user.plan_tier) =>
               naUser.plan_tier = naLast.body.user.plan_tier)
  /\ [][(naJwt'.k = "jwt" /\ naJwt' # naJwt) => naPc = "authorized"]_vars
C11_Witness ==
  /\ auVia = "login" /\ LoginOk(siLast)
  /\ lsToken.v = "jwt_2" /\ lsUser.role = "admin" /\ lsUser.plan_tier = "growth"

\* C12 (as claimed): on the sign-in page and in authorize alike, each of
\* the failure statuses 404, 401, 403 and 500 has an outcome of its own,
\* which no other of them produces.
C12_NeverCollapsed ==
  /\ (LoginFailed(siLast) /\ siLast.status \in NamedFailures) =>
       \A st \in NamedFailures \ {siLast.status} : ErrorMessage(st) # siAlert
  /\ (naPc = "rejected" /\ LoginFailed(naLast) /\ naLast.status \in NamedFailures) =>
       \A st \in NamedFailures \ {naLast.status} :
          authorize(Str("a@x.io"), [naLast EXCEPT !.status = st]) # naUser
\* C12 (amended): the sign-in page alerts a message of its own for each of
\* 404, 401, 403 and 500, pairwise distinct and distinct from the generic
\* fallback of every other non-2xx status; authorize answers every failure
\* with null.
C12_PageMessagesDistinct ==
  /\ LoginFailed(siLast) =>
       /\ siAlert \notin {NoAlert, ConfigAlert}
       /\ (siAlert = GenericLoginError) <=> (siLast.status \notin NamedFailures)
       /\ \A st \in NamedFailures \ {siLast.status} : ErrorMessage(st) # siAlert
  /\ naPc = "rejected" => naUser = NullUser
C12_Witness ==
  /\ LoginFailed(siLast) /\ siLast.status = 403
  /\ siAlert = "Account disabled. Please contact support."

\* C13: the tab that the sign-in page sent to /dashboard after a 2xx login
\* response is not sent back to /auth/signin by ProtectedRoute.
C13_ProtectedAfterLogin ==
  [][~(auVia = "login" /\ auLoc = DashboardPath
       /\ auVia' = "guard" /\ auLoc' = SignInPath)]_vars

\* C14: the Authorization header of a PUT /api/v1/settings in flight is
\* "Bearer " followed by the token the backend issued for the session.
C14_BearerIsIssuedToken ==
  stIsSaving =>
    /\ naJwt.k = "jwt" /\ naJwt.backendToken.t = "str"
    /\ stSent = Bearer(naJwt.backendToken)

\* C15: a protected page shows its children only when auth is not loading
\* and the user is authenticated; the Save button among them is pressed
\* only then.
C15_ChildrenOnlyAuthenticated ==
  /\ [](Rendered = "children" => (naStatus = "authenticated" /\ naJwt.k = "jwt"))
  /\ []((auLoc \in Protected /\ naStatus \in {"loading", "unauthenticated"}) =>
          Rendered \in {"spinner", "null"})
  /\ [][(~stIsSaving /\ stIsSaving') => naStatus = "authenticated"]_vars
C15_Witness ==
  /\ auLoc = SettingsPath /\ Rendered = "children" /\ stIsSaving
  /\ naStatus = "authenticated"

C17_RedirectIffUnauthenticated ==
  /\ [][(auLoc \in Protected /\ auVia' = "guard") =>
          /\ naStatus = "unauthenticated"
          /\ auLoc' = SignInPath]_vars
  /\ []((auLoc \in Protected /\ naStatus = "unauthenticated") =>
          (prPending /\ ENABLED RedirectEffect))
C17_Witness ==
  /\ auLoc = SignInPath /\ auVia = "guard" /\ naStatus = "unauthenticated"

\* C18: the dashboard shown to an authenticated user is past its loading
\* state, or can take a step that ends it: a fetch of the overview is in
\* flight, or one can be started.
C18_DashboardLoads ==
  (auLoc = DashboardPath /\ naStatus = "authenticated" /\ Flushed /\ dashIsLoading) =>
     ENABLED (HandleRefresh \/ DashboardResponds)

\* C21: once AuthProvider's session effect has run, backendToken is the
\* session's backendToken when the session has one and null otherwise: null
\* after sign-out, never the token of an earlier session.
C21_TokenTracksSession ==
  ~acPending =>
     /\ (naStatus = "authenticated" /\ naJwt.backendToken.t = "str") =>
          acToken = naJwt.backendToken
     /\ (naStatus # "authenticated" \/ naJwt.backendToken.t # "str") => acToken = Null
C21_Witness ==
  /\ auVia = "signout" /\ ~acPending /\ naStatus = "unauthenticated"
  /\ naJwt = NoJwt /\ acToken = Null

\* C23: the jwt callback calls the login endpoint once on the initial
\* sign-in and never when it runs for a session read; a session read leaves
\* the token as it is, and so does an initial sign-in whose login call
\* throws or returns non-2xx (the token keeps no backendToken and no user),
\* while a 2xx response gives the token the response's token and user.
C23_JwtFrame ==
  /\ [][(naStatus = "loading" /\ naStatus' # "loading") =>
          (naJwt' = naJwt /\ naLogins' = naLogins)]_vars
  /\ [][naPc' = "issued" => naLogins' = 2]_vars
  /\ [](naPc \in {"idle", "rejected"} => naLogins \in {0, 1})
  /\ []((naPc = "issued" /\ (naLast.k = "throw" \/ LoginFailed(naLast))) =>
          (naJwt.backendToken = Undefined /\ naJwt.user = NoUser))
  /\ []((naPc = "issued" /\ LoginOk(naLast) /\ naLast.body.k = "obj") =>
          (naJwt.backendToken = naLast.body.token /\ naJwt.user = naLast.body.user))
C23_Witness ==
  /\ naPc = "issued" /\ LoginFailed(naLast) /\ naLogins = 2
  /\ naJwt.k = "jwt" /\ naJwt.backendToken = Undefined /\ naStatus = "authenticated"

\* C24: the sign-in form sends a login request only with a non-empty email
\* and a configured API URL; localStorage is written and the tab is sent to
\* /dashboard only on the response of a request that was sent; without an
\* API URL the submission ends with the configuration alert, on the sign-in
\* page, with nothing stored.
C24_NoRequestWithoutEmailOrUrl ==
  /\ [][(~siIsLoading /\ siIsLoading') => (Truthy(siEmail) /\ Truthy(auApiUrl))]_vars
  /\ [][(lsToken' # lsToken \/ lsUser' # lsUser \/ (auVia # "login" /\ auVia' = "login")) =>
          siIsLoading]_vars
  /\ [](~Truthy(auApiUrl) =>
          (~siIsLoading /\ lsToken = NoItem /\ lsUser = NoItem /\ auVia # "login"))
  /\ [](siAlert = ConfigAlert =>
          (~Truthy(auApiUrl) /\ auLoc = SignInPath /\ ~siIsLoading))
C24_Witness ==
  /\ auLoc = SignInPath /\ siAlert = ConfigAlert /\ Truthy(siEmail)
  /\ ~siIsLoading /\ lsToken = NoItem /\ lsUser = NoItem

\* C25: while isLoading is true the response step of handleSubmit is
\* enabled, and that step leaves isLoading false whatever the response
\* (2xx, non-2xx, rejected fetch); without an API URL isLoading is false
\* when the submission ends.
C25_LoadingEnds ==
  /\ [](siIsLoading => ENABLED SubmitResponds)
  /\ [][(siIsLoading /\ siLast' # siLast) => ~siIsLoading']_vars
  /\ [](siLast # NoLogin => ~siIsLoading)
  /\ [](siAlert = ConfigAlert => ~siIsLoading)
C25_Witness ==
  /\ auLoc = SignInPath /\ siLast.k = "throw" /\ ~siIsLoading

\* C26: dashboardData changes only on a 2xx overview response, and when
\* fetchDashboardData completes (2xx, non-2xx or rejected fetch) isLoading
\* and isRefreshing are both false.
C26_DataOnlyOn2xx ==
  /\ [][dashData' # dashData =>
          (dashFetching /\ dashLast'.k = "resp" /\ Ok(dashLast'.status))]_vars
  /\ [][(dashFetching /\ ~dashFetching') => (~dashIsLoading' /\ ~dashIsRefreshing')]_vars
  /\ [](dashLast # NoOverview => (~dashFetching /\ ~dashIsLoading /\ ~dashIsRefreshing))
C26_Witness ==
  /\ dashLast.k = "resp" /\ dashLast.status = 500 /\ dashLast.body = "starter: 3 of 100"
  /\ dashData = "growth: 40 of 1000" /\ ~dashIsLoading /\ ~dashIsRefreshing

C28_DeployOnlyAfterSuccess ==
  /\ dpDeploy # "not run" =>
       /\ HasBucket(dpScript) => dpBucket = "ok"
       /\ HasBuild(dpScript) => dpBuild = "ok"
  /\ (dpPc = "done" /\ (dpBucket \in {"failed", "not found"}
                        \/ dpBuild \in {"failed", "not found"})) =>
       (dpExit = 1 /\ dpDeploy = "not run")

\* C29: after a run of init each of the eight parameters init lists for the
\* environment holds its placeholder value, whatever init and update runs
\* came before; a run of update changes no parameter but the one named, in
\* the environment named.
C29_InitResets ==
  /\ [](ssmLast.action = "init" =>
          \A name \in InitNames :
            ssmStore[ssmLast.env][name].value =
              (IF name = "ALLOWED_ORIGINS" THEN AllowedOrigins ELSE Placeholder))
  /\ [][ssmLast'.action = "update" =>
          \A env \in Environments, name \in ParamNames :
            (env # ssmLast'.env \/ name # ssmLast'.name) =>
              ssmStore'[env][name] = ssmStore[env][name]]_vars

====
